---- MODULE Spec2Model ----
(***************************************************************************)
(* A model of src/app.py: the upload -> show -> detect -> report pipeline  *)
(* of the odd/even vehicle interception site.  The working directories    *)
(* are the only state shared between requests; the detector (YOLO), the    *)
(* OCR service and the clock are the environment.                          *)
(***************************************************************************)
EXTENDS Integers, Sequences, FiniteSets, TLC

VARIABLES
    files,      \* the regular files under static/: records [dir, name, src]
    dirs,       \* the directories under static/ that exist
    pc,         \* per request slot: where an in-flight /detect stands
    last,       \* the last handler step: its route, input and response
    rin,        \* the input of the /report (or perform_ocr) call under study
    rout        \* its response

vars == <<files, dirs, pc, last, rin, rout>>

(***************************************************************************)
(* Bounds of the model.                                                    *)
(***************************************************************************)
MaxLen == 7
NumUploads == 2

(***************************************************************************)
(* Configuration (lines 13-18).                                            *)
(***************************************************************************)
UPLOAD_FOLDER == "static/uploads"
RESULT_FOLDER == "static/predict"
CROP_FOLDER == "static/predict/crops/license-plate"
ALLOWED_EXTENSIONS == {".png", ".jpg", ".jpeg"}
\* line 30-31: startup refuses an empty key, so every request sees it set
OCR_API_KEY == "key"

\* an optional value (Python's None or a value) is <<>> or <<v>>
None == <<>>
Some(v) == <<v>>
IsNone(o) == Len(o) = 0
Get(o) == o[1]

(***************************************************************************)
(* File names.  A name is [stem, idx, ext]: "<stem><idx><ext>", stem 0     *)
(* being the empty stem, idx 0 no index.  The empty string is              *)
(* [stem |-> 0, idx |-> 0, ext |-> ""].                                    *)
(***************************************************************************)
EmptyName == [stem |-> 0, idx |-> 0, ext |-> ""]
IsEmptyName(n) == n.stem = 0 /\ n.idx = 0 /\ n.ext = ""
Name(s, i, e) == [stem |-> s, idx |-> i, ext |-> e]

\* str.lower() on the extensions of the model
Lower(e) ==
    CASE e = ".JPG" -> ".jpg"
      [] e = ".PNG" -> ".png"
      [] e = ".JPEG" -> ".jpeg"
      [] OTHER -> e

\* lines 63-68: an optional name
allowed_file(filename) ==
    IF IsNone(filename) THEN FALSE
    ELSE Lower(Get(filename).ext) \in ALLOWED_EXTENSIONS

(***************************************************************************)
(* Text: a sequence of characters.  "S2" is the superscript two, a         *)
(* character str.isdigit() accepts and int() rejects.                      *)
(***************************************************************************)
Chars == {"B", "1", "2", "S2", " "}
Whitespace == {" "}
DecimalDigits == {"1", "2"}
DigitChars == DecimalDigits \cup {"S2"}
DigitValue(c) == IF c = "1" THEN 1 ELSE 2

RECURSIVE SplitFrom(_, _, _, _)
\* str.split(): the maximal runs of non-whitespace characters, in order
SplitFrom(text, i, cur, acc) ==
    IF i > Len(text)
    THEN IF cur = <<>> THEN acc ELSE Append(acc, cur)
    ELSE IF text[i] \in Whitespace
         THEN SplitFrom(text, i + 1, <<>>, IF cur = <<>> THEN acc ELSE Append(acc, cur))
         ELSE SplitFrom(text, i + 1, Append(cur, text[i]), acc)
split(text) == SplitFrom(text, 1, <<>>, <<>>)

\* str.isdigit(): non-empty and every character is a digit character
isdigit(tok) == Len(tok) > 0 /\ \A i \in 1..Len(tok) : tok[i] \in DigitChars

\* int(tok) succeeds on decimal digits only (ValueError otherwise)
IntRaises(tok) == Len(tok) = 0 \/ \E i \in 1..Len(tok) : tok[i] \notin DecimalDigits

RECURSIVE IntFrom(_, _, _)
IntFrom(tok, i, acc) ==
    IF i > Len(tok) THEN acc ELSE IntFrom(tok, i + 1, 10 * acc + DigitValue(tok[i]))
int(tok) == IntFrom(tok, 1, 0)

\* the f-string of lines 392 and 397
JoinThree(toks) == toks[1] \o <<" ">> \o toks[2] \o <<" ">> \o toks[3]

(***************************************************************************)
(* The OCR service and the transport, as perform_ocr meets them inside its *)
(* try block (lines 192-214).  An environment outcome is either an         *)
(* exception raised by open(), requests.post(), raise_for_status() or      *)
(* response.json(), or a decoded JSON body.                                *)
(***************************************************************************)
NoBody == [isDict |-> FALSE, flag |-> "missing", errmsg |-> "missing",
           parsed |-> "missing", text |-> <<>>]

\* a decoded body that is a JSON object
Body(flag, errmsg, parsed, text) ==
    [isDict |-> TRUE, flag |-> flag, errmsg |-> errmsg, parsed |-> parsed, text |-> text]

\* IsErroredOnProcessing: true, false or absent
Flags == {"true", "false", "missing"}
\* ErrorMessage: absent, a non-empty list, an empty list, null
ErrMsgs == {"missing", "list", "empty_list", "null"}
\* ParsedResults: absent, [], [{}], [{"ParsedText": null}], [{"ParsedText": text}]
ParsedShapes == {"missing", "empty", "no_text", "null_text", "text"}

\* what the call sites of lines 193-203 raise
RaisedKinds ==
    {"open_failed", "timeout", "connect_timeout", "connection", "http_status",
     "request", "bad_json"}

\* response.json() on a malformed body raises a class that depends on the
\* installed requests: requests.exceptions.JSONDecodeError (requests >= 2.27),
\* json.JSONDecodeError (older requests), simplejson's (older, simplejson present)
Builds == {"requests>=2.27", "requests<2.27", "requests<2.27+simplejson"}

Raise(kind, build) == [kind |-> kind, build |-> build, body |-> NoBody]
Response(body) == [kind |-> "response", build |-> "requests>=2.27", body |-> body]

\* the exception class each raising outcome produces
ExcClass(env) ==
    CASE env.kind = "open_failed" -> "FileNotFoundError"
      [] env.kind = "timeout" -> "ReadTimeout"
      [] env.kind = "connect_timeout" -> "ConnectTimeout"
      [] env.kind = "connection" -> "ConnectionError"
      [] env.kind = "http_status" -> "HTTPError"
      [] env.kind = "request" -> "TooManyRedirects"
      [] env.kind = "bad_json" ->
            (CASE env.build = "requests>=2.27" -> "requests.JSONDecodeError"
               [] env.build = "requests<2.27" -> "json.JSONDecodeError"
               [] OTHER -> "simplejson.JSONDecodeError")

\* isinstance: the classes named by the except clauses that each raised class
\* is an instance of (its own class and its base classes)
Ancestors(cls) ==
    CASE cls = "FileNotFoundError" -> {"FileNotFoundError", "Exception"}
      [] cls = "ReadTimeout" -> {"Timeout", "RequestException", "Exception"}
      [] cls = "ConnectTimeout" ->
            {"ConnectionError", "Timeout", "RequestException", "Exception"}
      [] cls = "ConnectionError" -> {"ConnectionError", "RequestException", "Exception"}
      [] cls = "HTTPError" -> {"HTTPError", "RequestException", "Exception"}
      [] cls = "TooManyRedirects" -> {"RequestException", "Exception"}
      [] cls = "requests.JSONDecodeError" ->
            {"RequestException", "JSONDecodeError", "ValueError", "Exception"}
      [] cls = "json.JSONDecodeError" -> {"JSONDecodeError", "ValueError", "Exception"}
      [] cls = "simplejson.JSONDecodeError" -> {"ValueError", "Exception"}
      [] cls = "AttributeError" -> {"AttributeError", "Exception"}
      [] cls = "IndexError" -> {"IndexError", "LookupError", "Exception"}
      [] cls = "TypeError" -> {"TypeError", "Exception"}
      [] cls = "KeyError" -> {"KeyError", "LookupError", "Exception"}
      [] cls = "ValueError" -> {"ValueError", "Exception"}
      [] OTHER -> {"Exception"}

\* the clauses without the final catch-all
OcrHandlersNoCatchAll ==
    << [cls |-> "FileNotFoundError", msg |-> "Error: Unable to open file at"],
       [cls |-> "Timeout",           msg |-> "Error: Request timed out"],
       [cls |-> "ConnectionError",   msg |-> "Error: Failed to connect to the API"],
       [cls |-> "HTTPError",         msg |-> "HTTP Error:"],
       [cls |-> "RequestException",  msg |-> "Request Error:"],
       [cls |-> "JSONDecodeError",   msg |-> "Error: Invalid JSON response from API"] >>

\* the except clauses of perform_ocr in source order (lines 215-242)
OcrHandlers ==
    << [cls |-> "FileNotFoundError", msg |-> "Error: Unable to open file at"],
       [cls |-> "Timeout",           msg |-> "Error: Request timed out"],
       [cls |-> "ConnectionError",   msg |-> "Error: Failed to connect to the API"],
       [cls |-> "HTTPError",         msg |-> "HTTP Error:"],
       [cls |-> "RequestException",  msg |-> "Request Error:"],
       [cls |-> "JSONDecodeError",   msg |-> "Error: Invalid JSON response from API"],
       [cls |-> "Exception",         msg |-> "Unexpected Error:"] >>

RECURSIVE FirstHandler(_, _, _)
\* Python's try/except: the first clause the exception is an instance of; 0 if none
FirstHandler(handlers, cls, i) ==
    IF i > Len(handlers) THEN 0
    ELSE IF handlers[i].cls \in Ancestors(cls) THEN i
    ELSE FirstHandler(handlers, cls, i + 1)

\* what perform_ocr hands back: a str, or the decoded object
Str(msg) == [isStr |-> TRUE, raised |-> FALSE, msg |-> msg, result |-> NoBody]
Obj(body) == [isStr |-> FALSE, raised |-> FALSE, msg |-> "", result |-> body]
Propagates(cls) == [isStr |-> FALSE, raised |-> TRUE, msg |-> cls, result |-> NoBody]

\* an exception raised inside the try block of lines 192-214
OcrCatch(cls) ==
    LET h == FirstHandler(OcrHandlers, cls, 1)
    IN  IF h = 0 THEN Propagates(cls) ELSE Str(OcrHandlers[h].msg)

\* lines 203-214: the decoded body
OcrDecoded(body) ==
    IF ~body.isDict
    THEN OcrCatch("AttributeError")                  \* result.get on a non-object
    ELSE IF body.flag \in {"true", "missing"}        \* .get(..., True)
         THEN CASE body.errmsg \in {"missing", "list"} -> Str("OCR Error:")
                [] body.errmsg = "empty_list" -> OcrCatch("IndexError")
                [] OTHER -> OcrCatch("TypeError")
         ELSE Obj(body)

\* lines 164-242.  image_path is the name under its directory (EmptyName: the
\* empty string), exists is Path(image_path).exists(), env the outcome of the
\* calls inside the try block.
perform_ocr(image_path, api_key, exists, env) ==
    IF api_key = "" THEN Str("Error: API key is required")
    ELSE IF IsEmptyName(image_path) THEN Str("Error: Image path is required")
    ELSE IF ~exists THEN Str("Error: Image file not found at")
    ELSE IF ~allowed_file(Some(image_path)) THEN Str("Error: Invalid image format")
    ELSE IF env.kind = "response" THEN OcrDecoded(env.body)
    ELSE OcrCatch(ExcClass(env))

(***************************************************************************)
(* Responses of the route handlers.  `at` is the source line of the return *)
(* statement taken (0: an exception left the view function), `calls` the   *)
(* adapters the handler invoked on the way.                                *)
(***************************************************************************)
Resp(kind, at, calls) ==
    [kind |-> kind, at |-> at, calls |-> calls, txt |-> <<>>, verdict |-> "",
     exc |-> "", name |-> EmptyName]
\* redirect(url_for("index"))
Redirect(at, calls) == Resp("redirect_index", at, calls)
\* render_template("report.html", ...)
RenderReport(at, txt, verdict) ==
    [Resp("render_report", at, {"perform_ocr"}) EXCEPT !.txt = txt, !.verdict = verdict]
\* an exception no clause of the handler catches leaves the view function
Unhandled(cls, calls) == [Resp("unhandled", 0, calls) EXCEPT !.exc = cls]

\* the except clause of lines 411-414 around lines 378-410
ReportCatch(cls) ==
    IF {"ValueError", "IndexError"} \cap Ancestors(cls) # {}
    THEN Redirect(414, {"perform_ocr"})
    ELSE Unhandled(cls, {"perform_ocr"})

\* the parser taking the plate number from the first token instead of the second
ReportParseFirstToken(parsed_text, curr_year) ==
    LET parsed_text_split == split(parsed_text) IN
    IF Len(parsed_text_split) < 3 THEN Redirect(383, {"perform_ocr"})
    ELSE LET plate_number == parsed_text_split[1] IN
         IF ~isdigit(plate_number)
         THEN RenderReport(390, JoinThree(parsed_text_split),
                           "UNKNOWN (Invalid plate number format)")
         ELSE IF IntRaises(plate_number) THEN ReportCatch("ValueError")
         ELSE LET is_violation ==
                      \/ (curr_year % 2 = 0 /\ int(plate_number) % 2 = 0)
                      \/ (curr_year % 2 = 1 /\ int(plate_number) % 2 = 1)
              IN  RenderReport(405, JoinThree(parsed_text_split),
                               IF is_violation THEN "YES" ELSE "NO")

\* lines 377-414: the text of ParsedResults[0].ParsedText and the clock's year
ReportParse(parsed_text, curr_year) ==
    LET parsed_text_split == split(parsed_text) IN
    IF Len(parsed_text_split) < 3 THEN Redirect(383, {"perform_ocr"})
    ELSE LET plate_number == parsed_text_split[2] IN
         IF ~isdigit(plate_number)
         THEN RenderReport(390, JoinThree(parsed_text_split),
                           "UNKNOWN (Invalid plate number format)")
         ELSE IF IntRaises(plate_number) THEN ReportCatch("ValueError")
         ELSE LET is_violation ==
                      \/ (curr_year % 2 = 0 /\ int(plate_number) % 2 = 0)
                      \/ (curr_year % 2 = 1 /\ int(plate_number) % 2 = 1)
              IN  RenderReport(405, JoinThree(parsed_text_split),
                               IF is_violation THEN "YES" ELSE "NO")

\* lines 363-414: what /report does with the value perform_ocr returned
ReportOnOcr(ocr_result, curr_year) ==
    IF ocr_result.raised THEN Unhandled(ocr_result.msg, {"perform_ocr"})
    ELSE IF ocr_result.isStr THEN Redirect(366, {"perform_ocr"})
    ELSE LET parsed_data == ocr_result.result IN
         IF parsed_data.parsed \in {"missing", "empty"} THEN Redirect(373, {"perform_ocr"})
         ELSE IF parsed_data.parsed = "no_text" THEN Unhandled("KeyError", {"perform_ocr"})
         ELSE IF parsed_data.parsed = "null_text" THEN ReportCatch("AttributeError")
         ELSE ReportParse(parsed_data.text, curr_year)

\* lines 345-414.  form is the img_name form field (None when absent), exists
\* whether CROP_FOLDER/img_name exists.
report(form, exists, env, curr_year) ==
    IF IsNone(form) \/ IsEmptyName(Get(form)) \/ ~allowed_file(form) THEN Redirect(352, {})
    ELSE IF ~exists THEN Redirect(359, {})
    ELSE ReportOnOcr(perform_ocr(Get(form), OCR_API_KEY, TRUE, env), curr_year)

(***************************************************************************)
(* The inputs of the report study: the form field, the crop's presence,    *)
(* the environment's answer and the clock.                                 *)
(***************************************************************************)
Texts == UNION {[1..n -> Chars] : n \in 0..MaxLen}
Years == {2024, 2025}

NoTextBodies ==
    {NoBody} \cup {Body(f, e, p, <<>>) : f \in Flags, e \in ErrMsgs,
                                         p \in ParsedShapes \ {"text"}}
TextBodies == {Body("false", "missing", "text", t) : t \in Texts}
RaiseEnvs ==
    {Raise(k, "requests>=2.27") : k \in RaisedKinds \ {"bad_json"}}
        \cup {Raise("bad_json", b) : b \in Builds}
OcrEnvs == RaiseEnvs \cup {Response(b) : b \in NoTextBodies}
TextEnvs == {Response(b) : b \in TextBodies}

Forms ==
    {None, Some(EmptyName), Some(Name(1, 0, "")), Some(Name(1, 0, ".txt")),
     Some(Name(1, 0, ".jpg")), Some(Name(1, 0, ".JPG"))}

ReportInputs ==
    [call : {"report"}, form : Forms, exists : BOOLEAN, api_key : {OCR_API_KEY},
     env : OcrEnvs, year : Years]
      \cup [call : {"report"}, form : {Some(Name(1, 0, ".jpg"))}, exists : {TRUE},
            api_key : {OCR_API_KEY}, env : TextEnvs, year : Years]

AdapterInputs ==
    [call : {"perform_ocr"}, form : Forms \ {None}, exists : BOOLEAN,
     api_key : {"", OCR_API_KEY}, env : OcrEnvs, year : {2024}]

NoOcr == Str("")
NotYet == [done |-> FALSE, resp |-> Resp("none", 0, {}), ocr |-> NoOcr]

\* the shared directories play no part in the report study
FlowIdle ==
    /\ files = {}
    /\ dirs = {}
    /\ pc = <<>>
    /\ last = Resp("none", 0, {})

InitReport ==
    /\ rin \in ReportInputs \cup AdapterInputs
    /\ rout = NotYet
    /\ FlowIdle

\* a POST /report
ReportRequest ==
    /\ rin.call = "report"
    /\ ~rout.done
    /\ rout' = [done |-> TRUE,
                resp |-> report(rin.form, rin.exists, rin.env, rin.year),
                ocr |-> IF IsNone(rin.form) THEN NoOcr
                        ELSE perform_ocr(Get(rin.form), OCR_API_KEY, rin.exists, rin.env)]
    /\ UNCHANGED <<files, dirs, pc, last, rin>>

\* a direct call of the OCR adapter
OcrAdapterCall ==
    /\ rin.call = "perform_ocr"
    /\ ~rout.done
    /\ rout' = [done |-> TRUE, resp |-> Resp("none", 0, {"perform_ocr"}),
                ocr |-> perform_ocr(Get(rin.form), rin.api_key, rin.exists, rin.env)]
    /\ UNCHANGED <<files, dirs, pc, last, rin>>

NextReport == ReportRequest \/ OcrAdapterCall

SpecReport == InitReport /\ [][NextReport]_vars

(***************************************************************************)
(* Properties of /report and perform_ocr, checked under SpecReport.        *)
(***************************************************************************)
\* a /report call whose OCR response was a success carrying a text
ReportedText ==
    /\ rout.done
    /\ rin.call = "report"
    /\ rin.env.kind = "response"
    /\ rin.env.body.isDict
    /\ rin.env.body.flag = "false"
    /\ rin.env.body.parsed = "text"
    /\ rout.resp.at \notin {352, 359}

Tokens == split(rin.env.body.text)
SpaceCount(t) == Cardinality({i \in 1..Len(t) : t[i] = " "})

\* the parity of a numeric token, read off its last digit (the superscript
\* two is the digit two)
TokenParity(tok) == IF tok[Len(tok)] = "1" THEN 1 ELSE 0

\* C1: for every OCR text of at least 3 tokens whose token at index 1 is
\* numeric (str.isdigit), and every year, /report renders a report whose verdict
\* is YES iff the year's parity equals the token's parity, and NO otherwise.
C1_VerdictByParity ==
    (ReportedText /\ Len(Tokens) >= 3 /\ isdigit(Tokens[2])) =>
        /\ rout.resp.kind = "render_report"
        /\ rout.resp.verdict =
              (IF rin.year % 2 = TokenParity(Tokens[2]) THEN "YES" ELSE "NO")

\* the part of C1 the code keeps: a token of decimal digits gets the verdict
C1_DecimalVerdictByParity ==
    (ReportedText /\ Len(Tokens) >= 3 /\ isdigit(Tokens[2]) /\ ~IntRaises(Tokens[2])) =>
        /\ rout.resp.kind = "render_report"
        /\ rout.resp.verdict =
              (IF rin.year % 2 = TokenParity(Tokens[2]) THEN "YES" ELSE "NO")

\* a decimal plate number has been given its verdict
C1_DecimalWitness ==
    /\ ReportedText /\ Len(Tokens) >= 3 /\ ~IntRaises(Tokens[2])
    /\ rout.resp.verdict = "NO"

\* a successful OCR response: perform_ocr returned the decoded object
OcrSucceeded ==
    /\ rout.done
    /\ rin.call = "report"
    /\ "perform_ocr" \in rout.resp.calls
    /\ ~rout.ocr.isStr /\ ~rout.ocr.raised

\* C2: /report redirects to start whenever the successful response's
\* ParsedResults[0].ParsedText is absent, is empty, or has fewer than 3 tokens;
\* none of these cases ends in an unhandled error.
C2_MissingTextRedirects ==
    (/\ OcrSucceeded
     /\ \/ rin.env.body.parsed \in {"missing", "empty", "no_text"}
        \/ (rin.env.body.parsed = "text" /\ Len(Tokens) < 3)) =>
        rout.resp.kind = "redirect_index"

\* the part of C2 the code keeps: an empty or too short text redirects
C2_ShortTextRedirects ==
    (OcrSucceeded /\ rin.env.body.parsed = "text" /\ Len(Tokens) < 3) =>
        rout.resp.kind = "redirect_index" /\ rout.resp.at = 383

\* C3: with at least 3 tokens and a non-numeric token at index 1, /report
\* renders a report with verdict "UNKNOWN (Invalid plate number format)" and
\* display text tokens 0, 1, 2 joined by single spaces.
C3_NonNumericIsUnknown ==
    (ReportedText /\ Len(Tokens) >= 3 /\ ~isdigit(Tokens[2])) =>
        /\ rout.resp.kind = "render_report"
        /\ rout.resp.verdict = "UNKNOWN (Invalid plate number format)"
        /\ rout.resp.txt = Tokens[1] \o <<" ">> \o Tokens[2] \o <<" ">> \o Tokens[3]
        /\ SpaceCount(rout.resp.txt) = 2

\* a four-token text with a non-numeric plate was reported UNKNOWN
C3_Witness ==
    /\ ReportedText /\ Len(Tokens) = 4 /\ ~isdigit(Tokens[2])
    /\ rout.resp.verdict = "UNKNOWN (Invalid plate number format)"
    /\ rout.resp.txt # rin.env.body.text

\* the failures perform_ocr answers with a string, from its inputs alone
OcrFailure ==
    \/ rin.api_key = ""
    \/ IsEmptyName(Get(rin.form))
    \/ ~rin.exists
    \/ Lower(Get(rin.form).ext) \notin {".png", ".jpg", ".jpeg"}
    \/ rin.env.kind # "response"
    \/ ~rin.env.body.isDict
    \/ rin.env.body.flag # "false"

\* C5: perform_ocr never raises; it returns a string on every failure and
\* the decoded object only for a received, decoded response whose
\* IsErroredOnProcessing is false; /report goes on to parsing exactly when the
\* returned value is not a string.
C5_OcrReturnsStringOnFailure ==
    (rout.done /\ "perform_ocr" \in rout.resp.calls) =>
        /\ ~rout.ocr.raised
        /\ rout.ocr.isStr <=> OcrFailure
        /\ ~rout.ocr.isStr => rout.ocr.result = rin.env.body
        /\ rin.call = "report" =>
              /\ rout.resp.kind # "unhandled" \/ ~rout.ocr.isStr
              /\ (rout.resp.at = 366) <=> rout.ocr.isStr

\* the adapter was called on a path that does not exist and answered with a string
C5_Witness ==
    /\ rout.done /\ rin.call = "perform_ocr"
    /\ rin.api_key # "" /\ ~IsEmptyName(Get(rin.form)) /\ ~rin.exists
    /\ rout.ocr = Str("Error: Image file not found at")

\* the error string the claim assigns to each transport failure kind
TransportMessage(kind) ==
    CASE kind = "timeout" -> "Error: Request timed out"
      [] kind = "connection" -> "Error: Failed to connect to the API"
      [] kind = "http_status" -> "HTTP Error:"
      [] kind = "request" -> "Request Error:"
      [] kind = "bad_json" -> "Error: Invalid JSON response from API"

TransportKinds == {"timeout", "connection", "http_status", "request", "bad_json"}

\* C6: the five transport failure kinds map to five pairwise distinct error
\* strings, each kind reaching its own handler; a malformed-JSON response
\* yields the invalid-JSON string, not the generic request-failure string.
C6_TransportKindsDistinct ==
    (/\ rout.done /\ rin.call = "perform_ocr"
     /\ rin.api_key # "" /\ rin.exists /\ allowed_file(rin.form)
     /\ rin.env.kind \in TransportKinds) =>
        /\ rout.ocr = Str(TransportMessage(rin.env.kind))
        /\ \A k \in TransportKinds \ {rin.env.kind} :
              rout.ocr # Str(TransportMessage(k))

\* the four kinds raised by requests.post and raise_for_status do reach
\* their own handlers
C6_PostFailuresDistinct ==
    (/\ rout.done /\ rin.call = "perform_ocr"
     /\ rin.api_key # "" /\ rin.exists /\ allowed_file(rin.form)
     /\ rin.env.kind \in TransportKinds \ {"bad_json"}) =>
        rout.ocr = Str(TransportMessage(rin.env.kind))

(***************************************************************************)
(* The working directories.  CROP_FOLDER lies inside RESULT_FOLDER; the    *)
(* detector (project = RESULT_FOLDER, name = ".", lines 107-108) saves the *)
(* crops of class c under RESULT_FOLDER/crops/c.                           *)
(***************************************************************************)
CROPS_PARENT == "static/predict/crops"
OTHER_CROPS == "static/predict/crops/other"

\* the directories at or below a directory
Tree(folder) ==
    CASE folder = UPLOAD_FOLDER -> {UPLOAD_FOLDER}
      [] folder = RESULT_FOLDER -> {RESULT_FOLDER, CROPS_PARENT, CROP_FOLDER, OTHER_CROPS}
      [] folder = CROPS_PARENT -> {CROPS_PARENT, CROP_FOLDER, OTHER_CROPS}
      [] OTHER -> {folder}

\* a regular file: its directory, its name and the upload it was made from
File(dir, name, src) == [dir |-> dir, name |-> name, src |-> src]

\* Path(dir / name).exists()
Exists(f, dir, name) == \E x \in f : x.dir = dir /\ x.name = name

\* writing a file replaces what the path held
Write(f, x) == {y \in f : ~(y.dir = x.dir /\ y.name = x.name)} \cup {x}

\* the names an upload can carry: stem s with its allowed extension, and
\* the stored name secure_filename(timestamp_name) keeps that extension
GoodName(s) == Name(s, 0, IF s % 2 = 1 THEN ".jpg" ELSE ".PNG")
Stems == 1..NumUploads
GoodNames == {GoodName(s) : s \in Stems}
BadNames == {Name(1, 0, ".txt"), Name(1, 0, "")}

(***************************************************************************)
(* delete_images (lines 70-94).  stuck: the files whose unlink raises.     *)
(***************************************************************************)
\* glob("*") instead of rglob("*"): the files directly in the folder
FilesDirectlyIn(f, folder) == {x \in f : x.dir = folder}

\* rglob("*") with is_file(): the files in the folder and below it
FilesBelow(f, folder) == {x \in f : x.dir \in Tree(folder)}

\* lines 81-89 for one folder
DeleteFolder(f, folder, stuck) == f \ (FilesBelow(f, folder) \ stuck)

RECURSIVE DeleteFolders(_, _, _, _, _)
\* lines 75-89: the loop over folders_to_clean
DeleteFolders(f, d, folders, i, stuck) ==
    IF i > Len(folders) THEN f
    ELSE IF folders[i] \notin d
         THEN DeleteFolders(f, d, folders, i + 1, stuck)
         ELSE DeleteFolders(DeleteFolder(f, folders[i], stuck), d, folders, i + 1, stuck)

\* lines 70-94; no directory of the model makes the scan itself raise, so the
\* handler of lines 91-94 is not entered
delete_images(f, d, stuck) ==
    [files |-> DeleteFolders(f, d, <<UPLOAD_FOLDER, RESULT_FOLDER, CROP_FOLDER>>, 1, stuck),
     dirs |-> d,
     error |-> None]

(***************************************************************************)
(* The record of a handler step.                                           *)
(***************************************************************************)
NoInput == [form |-> None, defect |-> "", stuck |-> {}]
Input(form, defect) == [form |-> form, defect |-> defect, stuck |-> {}]
NoDetection == [outcome |-> "none", lp |-> 0, other |-> 0, annot |-> ""]
NoReturn == [results |-> "n/a", path |-> None]
Step(route, input, resp) ==
    [route |-> route, input |-> input, resp |-> resp, yolo |-> NoDetection,
     ret |-> NoReturn]

\* lines 246-254
index(f, d, stuck) ==
    LET error == delete_images(f, d, stuck) IN
    [files |-> error.files, dirs |-> error.dirs,
     resp |-> IF ~IsNone(error.error) THEN Resp("json_error_500", 252, {})
              ELSE Resp("render_index", 254, {})]

\* an upload that stores the file before it verifies the image
uploadSaveFirst(f, d, form, defect) ==
    IF IsNone(form)
    THEN [files |-> f, dirs |-> d, resp |-> Redirect(267, {})]
    ELSE IF IsEmptyName(Get(form)) \/ ~allowed_file(form)
    THEN [files |-> f, dirs |-> d, resp |-> Redirect(274, {})]
    ELSE IF defect = "mime"
    THEN [files |-> f, dirs |-> d, resp |-> Redirect(278, {})]
    ELSE IF defect = "decode"
    THEN [files |-> Write(f, File(UPLOAD_FOLDER, Get(form), Get(form).stem)),
          dirs |-> d, resp |-> Redirect(290, {})]
    ELSE [files |-> Write(f, File(UPLOAD_FOLDER, Get(form), Get(form).stem)),
          dirs |-> d,
          resp |-> [Resp("redirect_show", 298, {}) EXCEPT !.name = Get(form)]]

\* lines 261-298.  form: the file field's filename (None: no file field);
\* defect: "mime" when the MIME type is not image/*, "decode" when the bytes
\* do not verify as an image.
upload(f, d, form, defect) ==
    IF IsNone(form)
    THEN [files |-> f, dirs |-> d, resp |-> Redirect(267, {})]
    ELSE IF IsEmptyName(Get(form)) \/ ~allowed_file(form)
    THEN [files |-> f, dirs |-> d, resp |-> Redirect(274, {})]
    ELSE IF defect = "mime"
    THEN [files |-> f, dirs |-> d, resp |-> Redirect(278, {})]
    ELSE IF defect = "decode"
    THEN [files |-> f, dirs |-> d, resp |-> Redirect(290, {})]
    ELSE [files |-> Write(f, File(UPLOAD_FOLDER, Get(form), Get(form).stem)),
          dirs |-> d,
          resp |-> [Resp("redirect_show", 298, {}) EXCEPT !.name = Get(form)]]

\* lines 300-308
show_image(f, filename) ==
    IF IsEmptyName(filename) \/ ~allowed_file(Some(filename))
           \/ ~Exists(f, UPLOAD_FOLDER, filename)
    THEN Redirect(306, {})
    ELSE [Resp("render_read", 308, {}) EXCEPT !.name = filename]

(***************************************************************************)
(* The detector.  YOLO_MODEL.predict (lines 101-111) either raises, or     *)
(* returns one result for the image: lp boxes of class license-plate and   *)
(* other boxes of another class.  With save and save_crop it writes the    *)
(* annotated image into RESULT_FOLDER, under the upload's own name or with *)
(* the suffix .jpg, and the crops under crops/<class>/, a license-plate     *)
(* crop as <stem>.jpg.                                                     *)
(***************************************************************************)
Detection(outcome, lp, other, annot) ==
    [outcome |-> outcome, lp |-> lp, other |-> other, annot |-> annot]

\* the outcomes for an image (for a .jpg image the two names coincide)
Detections(image) ==
    {Detection("raises", 0, 0, ""), Detection("no_save_dir", 1, 0, "")}
        \cup {Detection("saved", lp, other, annot) :
                 lp \in 0..1, other \in 0..1,
                 annot \in IF image.ext = ".jpg" THEN {"same"} ELSE {"same", ".jpg"}}

\* the crops of the other class, which no handler ever names, are kept as
\* one file of their directory
OtherCrop == Name(0, 1, ".jpg")

\* the files predict() leaves behind for the image
YoloWrite(f, d, image, y) ==
    IF y.outcome # "saved" THEN [files |-> f, dirs |-> d]
    ELSE LET annotated == File(RESULT_FOLDER,
                               IF y.annot = "same" THEN image
                               ELSE Name(image.stem, 0, ".jpg"),
                               image.stem)
             crop == Name(image.stem, 0, ".jpg")
             f1 == Write(f, annotated)
             f2 == IF y.lp > 0 THEN Write(f1, File(CROP_FOLDER, crop, image.stem)) ELSE f1
             f3 == IF y.other > 0 THEN Write(f2, File(OTHER_CROPS, OtherCrop, 0)) ELSE f2
         IN  [files |-> f3,
              dirs |-> d \cup (IF y.lp > 0 THEN {CROPS_PARENT, CROP_FOLDER} ELSE {})
                         \cup (IF y.other > 0 THEN {CROPS_PARENT, OTHER_CROPS} ELSE {})]

\* lines 99-111: mkdir(parents, exist_ok) of CROP_FOLDER, then predict()
PredictBegin(f, d, image, y) ==
    YoloWrite(f, d \cup {CROPS_PARENT, CROP_FOLDER}, image, y)

\* lines 122-131: the annotated images the probing loop can settle on
PredictedCandidates(f, image) ==
    {x.name : x \in {z \in f : /\ z.dir = RESULT_FOLDER
                               /\ z.name.stem = image.stem
                               /\ z.name.idx = 0
                               /\ z.name.ext \in ALLOWED_EXTENSIONS}}

\* line 138 with result.save_dir = RESULT_FOLDER
CropDir == "static/predict/crops/license-plate"

\* lines 141-145: every *.jpg of crop_dir renamed into CROP_FOLDER
MoveCrops(f) ==
    {IF x.dir = CropDir /\ x.name.ext = ".jpg" THEN [x EXCEPT !.dir = CROP_FOLDER] ELSE x
        : x \in f}

\* Path.rmdir(): only an empty directory goes (OSError otherwise)
IsEmptyDir(f, d, dir) ==
    /\ ~\E x \in f : x.dir = dir
    /\ ~\E sub \in d : sub # dir /\ sub \in Tree(dir)

\* lines 147-152: rmdir(crop_dir), then rmdir(crop_dir.parent), up to the first OSError
RemoveEmptyCropDirs(f, d) ==
    IF ~IsEmptyDir(f, d, CropDir) THEN d
    ELSE LET d1 == d \ {CropDir} IN
         IF ~IsEmptyDir(f, d1, CROPS_PARENT) THEN d1 ELSE d1 \ {CROPS_PARENT}

\* what predict_image returns: (results, relative_path)
Return(results, path) == [results |-> results, path |-> path]

\* the variant probing for the annotated image outside the boxes test
PredictCollectAlwaysProbe(f, d, image, y, predicted) ==
    IF y.outcome = "raises"
    THEN [files |-> f, dirs |-> d, ret |-> Return("null", None)]
    ELSE IF y.outcome = "no_save_dir"
    THEN [files |-> f, dirs |-> d, ret |-> Return("list", None)]
    ELSE LET f1 == IF CropDir \in d THEN MoveCrops(f) ELSE f
             d1 == IF CropDir \in d THEN RemoveEmptyCropDirs(f1, d) ELSE d
         IN  [files |-> f1, dirs |-> d1, ret |-> Return("list", predicted)]

\* lines 113-162 after predict(): predicted is the probing loop's pick (None
\* when PredictedCandidates is empty)
PredictCollect(f, d, image, y, predicted) ==
    IF y.outcome = "raises"
    THEN [files |-> f, dirs |-> d, ret |-> Return("null", None)]
    ELSE IF y.lp + y.other = 0 \/ y.outcome = "no_save_dir"
    THEN [files |-> f, dirs |-> d, ret |-> Return("list", None)]
    ELSE LET f1 == IF CropDir \in d THEN MoveCrops(f) ELSE f
             d1 == IF CropDir \in d THEN RemoveEmptyCropDirs(f1, d) ELSE d
         IN  [files |-> f1, dirs |-> d1, ret |-> Return("list", predicted)]

\* the probing loop's possible picks
ProbePicks(f, image, y) ==
    IF PredictedCandidates(f, image) = {} THEN {None}
    ELSE {Some(n) : n \in PredictedCandidates(f, image)}

\* lines 313-325: the checks of /detect; 0 when they pass
DetectRejectsAt(f, form) ==
    IF IsNone(form) \/ IsEmptyName(Get(form)) \/ ~allowed_file(form) THEN 318
    ELSE IF ~Exists(f, UPLOAD_FOLDER, Get(form)) THEN 325
    ELSE 0

\* a listing that shows a request only the crops cut from its own image
OwnCropChoices(f, d, image_file) ==
    LET crop_files == {x \in f : x.dir = CROP_FOLDER /\ x.name.ext = ".jpg"
                                 /\ x.src = image_file.stem}
    IN  IF crop_files = {} THEN {image_file} ELSE {x.name : x \in crop_files}

\* lines 338-340: crop_files[0].name for whichever file the listing of
\* CROP_FOLDER puts first, else image_file
CropChoices(f, d, image_file) ==
    LET crop_files == {x \in f : x.dir = CROP_FOLDER /\ x.name.ext = ".jpg"}
    IN  IF crop_files = {} THEN {image_file} ELSE {x.name : x \in crop_files}

(***************************************************************************)
(* Requests.  /detect runs in three steps, between which another request   *)
(* may run when requests overlap; the other handlers are single steps.     *)
(***************************************************************************)
Requests == {"r1", "r2"}
Idle == [at |-> "idle", image |-> EmptyName, yolo |-> NoDetection, path |-> None]
AllIdle == \A r \in Requests : pc[r].at = "idle"

\* the files whose unlink the environment lets fail: none, or one
StuckChoices(f) == {{}} \cup {{x} : x \in f}

\* the bodies of an upload: each file name with sound content, and a good
\* name with a wrong MIME type or with bytes that are no image
UploadInputs ==
    {<<form, "">> : form \in {None, Some(EmptyName)}
                              \cup {Some(n) : n \in GoodNames \cup BadNames}}
        \cup {<<Some(GoodName(1)), defect>> : defect \in {"mime", "decode"}}

\* what a client can send as a file name
FormNames == {None, Some(EmptyName)} \cup {Some(n) : n \in GoodNames \cup BadNames}

\* the OCR answer of the flow study (SpecReport studies the others)
FlowOcrEnvs ==
    {Response(Body("false", "missing", "text", <<"B", " ", "1", " ", "B">>))}

Init ==
    /\ files = {}
    /\ dirs = {UPLOAD_FOLDER, RESULT_FOLDER, CROPS_PARENT, CROP_FOLDER}  \* lines 33-34
    /\ pc = [r \in Requests |-> Idle]
    /\ last = Step("start", NoInput, Resp("none", 0, {}))
    /\ rin = [call |-> "none"]
    /\ rout = NotYet

\* GET /
Index(overlap) ==
    /\ overlap \/ AllIdle
    /\ \E stuck \in StuckChoices(files) :
          LET r == index(files, dirs, stuck) IN
          /\ files' = r.files
          /\ dirs' = r.dirs
          /\ last' = Step("index", [NoInput EXCEPT !.stuck = stuck], r.resp)
    /\ UNCHANGED <<pc, rin, rout>>

\* POST /upload
Upload(overlap) ==
    /\ overlap \/ AllIdle
    /\ \E in \in UploadInputs :
          LET r == upload(files, dirs, in[1], in[2]) IN
          /\ files' = r.files
          /\ dirs' = r.dirs
          /\ last' = Step("upload", Input(in[1], in[2]), r.resp)
    /\ UNCHANGED <<pc, rin, rout>>

\* GET /show/<filename>
ShowImage(overlap) ==
    /\ overlap \/ AllIdle
    /\ \E form \in FormNames \ {None, Some(EmptyName)} :
          last' = Step("show", Input(form, ""), show_image(files, Get(form)))
    /\ UNCHANGED <<files, dirs, pc, rin, rout>>

\* POST /report
Report(overlap) ==
    /\ overlap \/ AllIdle
    /\ \E form \in FormNames, env \in FlowOcrEnvs :
          last' = Step("report", Input(form, ""),
                       report(form,
                              ~IsNone(form) /\ Exists(files, CROP_FOLDER, Get(form)),
                              env, 2025))
    /\ UNCHANGED <<files, dirs, pc, rin, rout>>

\* POST /detect, lines 313-329 and 99-111: the checks, then predict_image up
\* to the return of predict()
DetectBegin(r, overlap) ==
    /\ pc[r].at = "idle"
    /\ overlap \/ AllIdle
    /\ \E form \in FormNames :
          IF DetectRejectsAt(files, form) # 0
          THEN /\ last' = Step("detect", Input(form, ""),
                               Redirect(DetectRejectsAt(files, form), {}))
               /\ UNCHANGED <<files, dirs, pc>>
          ELSE \E y \in Detections(Get(form)) :
                  LET w == PredictBegin(files, dirs, Get(form), y) IN
                  /\ files' = w.files
                  /\ dirs' = w.dirs
                  /\ pc' = [pc EXCEPT ![r] = [at |-> "predicted", image |-> Get(form),
                                              yolo |-> y, path |-> None]]
                  /\ last' = [Step("detect", Input(form, ""),
                                   Resp("in_predict", 101, {"predict_image"}))
                              EXCEPT !.yolo = y]
    /\ UNCHANGED <<rin, rout>>

\* lines 113-162 and 329-334: the rest of predict_image and the test of
\* what it returned
DetectCollect(r) ==
    /\ pc[r].at = "predicted"
    /\ \E predicted \in ProbePicks(files, pc[r].image, pc[r].yolo) :
          LET c == PredictCollect(files, dirs, pc[r].image, pc[r].yolo, predicted)
              failed == c.ret.results = "null" \/ IsNone(c.ret.path)
          IN  /\ files' = c.files
              /\ dirs' = c.dirs
              /\ pc' = [pc EXCEPT ![r] = IF failed THEN Idle
                                         ELSE [pc[r] EXCEPT !.at = "collected",
                                                            !.path = c.ret.path]]
              /\ last' = [Step("detect", Input(Some(pc[r].image), ""),
                               IF failed THEN Redirect(334, {"predict_image"})
                               ELSE Resp("in_detect", 336, {"predict_image"}))
                          EXCEPT !.yolo = pc[r].yolo, !.ret = c.ret]
    /\ UNCHANGED <<rin, rout>>

\* lines 338-342: the listing of CROP_FOLDER and the detection page
DetectRender(r) ==
    /\ pc[r].at = "collected"
    /\ \E crop_filename \in CropChoices(files, dirs, pc[r].image) :
          last' = [Step("detect", Input(Some(pc[r].image), ""),
                        [Resp("render_detect", 342, {"predict_image"})
                             EXCEPT !.name = crop_filename])
                   EXCEPT !.yolo = pc[r].yolo, !.ret = Return("list", pc[r].path)]
    /\ pc' = [pc EXCEPT ![r] = Idle]
    /\ UNCHANGED <<files, dirs, rin, rout>>

\* requests served one at a time
Next ==
    \/ Index(FALSE)
    \/ Upload(FALSE)
    \/ ShowImage(FALSE)
    \/ Report(FALSE)
    \/ DetectBegin("r1", FALSE)
    \/ DetectCollect("r1")
    \/ DetectRender("r1")

Spec == Init /\ [][Next]_vars

\* requests served by concurrent workers
\* two images have been uploaded (Upload, once for each)
InitOverlap ==
    /\ files = {File(UPLOAD_FOLDER, GoodName(s), s) : s \in {1, 2}}
    /\ dirs = {UPLOAD_FOLDER, RESULT_FOLDER, CROPS_PARENT, CROP_FOLDER}
    /\ pc = [r \in Requests |-> Idle]
    /\ last = Step("upload", Input(Some(GoodName(2)), ""),
                   [Resp("redirect_show", 298, {}) EXCEPT !.name = GoodName(2)])
    /\ rin = [call |-> "none"]
    /\ rout = NotYet

NextOverlap ==
    \/ \E r \in Requests : DetectBegin(r, TRUE)
    \/ \E r \in Requests : DetectCollect(r)
    \/ \E r \in Requests : DetectRender(r)

SpecOverlap == InitOverlap /\ [][NextOverlap]_vars

(***************************************************************************)
(* Properties of the routes, checked under Spec (requests one at a time)   *)
(* and SpecOverlap (overlapping /detect requests).                         *)
(***************************************************************************)
\* predict_image has returned for an image in which the detector found no box
ZeroBoxesReturned ==
    /\ last.route = "detect"
    /\ last.resp.kind \in {"redirect_index", "in_detect"}
    /\ "predict_image" \in last.resp.calls
    /\ last.yolo.outcome = "saved"
    /\ last.yolo.lp + last.yolo.other = 0

BadFileName(form) ==
    \/ IsNone(form)
    \/ IsEmptyName(Get(form))
    \/ Lower(Get(form).ext) \notin {".png", ".jpg", ".jpeg"}

InvalidRequest(route, input, f) ==
    \/ /\ route = "upload"
       /\ BadFileName(input.form) \/ input.defect \in {"mime", "decode"}
    \/ /\ route = "show"
       /\ BadFileName(input.form) \/ ~Exists(f, "static/uploads", Get(input.form))
    \/ /\ route = "detect"
       /\ BadFileName(input.form) \/ ~Exists(f, "static/uploads", Get(input.form))
    \/ /\ route = "report"
       /\ \/ BadFileName(input.form)
          \/ ~Exists(f, "static/predict/crops/license-plate", Get(input.form))

\* C7: for /upload, /show, /detect and /report every validation failure ends
\* the request with a redirect to start, and the rejecting handler creates,
\* modifies or deletes no file and calls neither the detector nor the OCR
\* service.
C7_RejectedRequestsChangeNothing ==
    [][InvalidRequest(last'.route, last'.input, files) =>
          /\ last'.resp.kind = "redirect_index"
          /\ last'.resp.calls = {}
          /\ files' = files
          /\ dirs' = dirs
          /\ pc' = pc]_vars

\* an upload whose bytes are no image was turned away while files were stored
C7_Witness ==
    /\ last.route = "upload"
    /\ last.input.defect = "decode"
    /\ ~BadFileName(last.input.form)
    /\ last.resp.kind = "redirect_index"
    /\ files # {}

\* no regular file is left under the three working directories
NoFileLeft(f) ==
    \A x \in f : x.dir \notin {"static/uploads", "static/predict", "static/predict/crops",
                              "static/predict/crops/license-plate",
                              "static/predict/crops/other"}

\* C8: when no per-file deletion fails, delete_images returns no error and
\* leaves no regular file under the upload, prediction and crop directories,
\* every directory still exists, and invoking it again on that state returns
\* no error and changes nothing.
C8_CleanupEmptiesAndRepeats ==
    [][(last'.route = "index" /\ last'.input.stuck = {}) =>
          /\ last'.resp.kind = "render_index"
          /\ NoFileLeft(files')
          /\ dirs' = dirs
          /\ delete_images(files', dirs', {}) =
                [files |-> files', dirs |-> dirs', error |-> None]
          /\ index(files', dirs', {}).resp = last'.resp]_vars

\* the start page was served after a detection had left a crop of another
\* class below the prediction directory, and nothing is left
C8_Witness ==
    /\ last.route = "index"
    /\ last.input.stuck = {}
    /\ last.resp.kind = "render_index"
    /\ "static/predict/crops/other" \in dirs
    /\ files = {}

\* the crops in the crop directory that were cut from another image than r's
ForeignCrops(r) ==
    {x \in files : /\ x.dir = "static/predict/crops/license-plate"
                   /\ x.name.ext = ".jpg"
                   /\ x.src # pc[r].image.stem}

\* C9: two overlapping /detect requests for different images can interleave
\* on the shared crop directory so that a request's rendered crop filename
\* names a crop produced by the other request: whenever a request is about to
\* list the crop directory, rendering any crop in it that was cut from
\* another image is a step it can take.
C9_NoCropIsolation ==
    \A r \in Requests :
        pc[r].at = "collected" =>
            \A x \in ForeignCrops(r) :
                ENABLED (DetectRender(r) /\ last'.resp.name = x.name)

\* a request has rendered the crop of the image the other request, still in
\* flight, is working on
C9_Witness ==
    /\ last.resp.kind = "render_detect"
    /\ \E o \in Requests :
          /\ pc[o].at # "idle"
          /\ pc[o].image.stem # Get(last.input.form).stem
          /\ pc[o].yolo.lp > 0
          /\ \E x \in files :
                /\ x.dir = "static/predict/crops/license-plate"
                /\ x.name = last.resp.name
                /\ x.src = pc[o].image.stem

\* C10: with requests served one at a time, whenever /detect succeeds for an
\* uploaded file F, the crop filename it hands to the report step names a file
\* that exists in the crop directory and was cropped from F.
C10_SequentialCropIsOwn ==
    last.resp.kind = "render_detect" =>
        \E x \in files :
            /\ x.dir = "static/predict/crops/license-plate"
            /\ x.name = last.resp.name
            /\ x.src = Get(last.input.form).stem

\* the case of C10 in which the call itself cut a license-plate crop
C10_FreshCropIsRendered ==
    (last.resp.kind = "render_detect" /\ last.yolo.lp > 0) =>
        \E x \in files :
            /\ x.dir = "static/predict/crops/license-plate"
            /\ x.name = last.resp.name
            /\ x.src = Get(last.input.form).stem

====
